---- MODULE Spec2Model ----
(***************************************************************************)
(* A model of github.com/bendrucker/sqs-receive-channel.                   *)
(*                                                                         *)
(*   pkg/receive  Receive: New, Start (the loop goroutine), Run, Do,       *)
(*                Requests                                                 *)
(*   channel.go   Dispatch: Start, ReceiveCapacity, Receive (the wiring of *)
(*                a Receive to the buffered receive channel), Delete,      *)
(*                BatchDeletes                                             *)
(*   pkg/page     Pager.Pages                                              *)
(*                                                                         *)
(* The specifications share the variables:                                 *)
(*   SpecRequests  the pure splitter Receive.Requests on bounded inputs    *)
(*   SpecPages     Receive.Requests and pkg/page's Pager.Pages on the same *)
(*                 bounded inputs                                          *)
(*   Spec          one Receive instance used directly (as in the package's *)
(*                 tests): the caller supplies CountFunc and DoFunc, reads *)
(*                 Results() and Errors(), calls Start and cancels         *)
(*   SpecDispatch  the Receive instance that Dispatch.Receive builds       *)
(*   FairSpec      a Receive started once, with the fairness of the Go     *)
(*                 scheduler                                               *)
(*   FairStalled   Dispatch.Receive against a service whose calls do not   *)
(*                 fail, the application reading d.receives or not, with   *)
(*                 fairness (SpecStalled: the same without fairness)       *)
(*   FairReading   FairStalled with an application that keeps reading       *)
(*   SpecRace      one Receive whose Start is called from several          *)
(*                 goroutines: the check and the write of r.started are    *)
(*                 separate steps                                          *)
(*   SpecNew       New on Options with any MaxCount, then FairSpec's steps *)
(*   FairDispatch  SpecDispatch with the fairness of the Go scheduler      *)
(*   SpecExample   Dispatch.Receive with ReceiveBufferSize 25 against a    *)
(*                 service that returns as many messages as asked for      *)
(*   SpecDelete    Dispatch.Delete and BatchDeletes: the delete channel,   *)
(*                 the batcher behind bach.NewBatch, the consumer          *)
(*   FairDelete    the delete path with every call succeeding and the      *)
(*                 context not cancelled, with fairness                    *)
(*   SpecWorkers   the delete path with Delete.Concurrency goroutines of   *)
(*                 Delete and few messages                                 *)
(*   FairWorkers   the same while the context is not cancelled, with       *)
(*                 fairness                                                *)
(*   FairCancel    SpecWorkers with fairness for everything but the        *)
(*                 application reading the error stream                    *)
(*   SpecOptions   SpecWorkers' steps after Start on any Options.Delete    *)
(***************************************************************************)
EXTENDS Integers, Sequences, FiniteSets, TLC

\* ------------------------------------------------------------------ bounds

\* MaxBatchSize of channel.go: the MaxCount Dispatch.Receive configures.
MaxBatchSize == 10

\* Largest Options.MaxCount of a directly used Receive.
MaxMaxCount == 2
\* Largest value the caller's CountFunc returns.
MaxDemand == 2
\* Largest number of results the caller's DoFunc returns for one request.
MaxItems == 2
\* Number of Start calls made on one Receive.
MaxStarts == 2
\* Largest Options.ReceiveBufferSize of a Dispatch.
MaxBuffer == 12
\* Inputs of the splitter under SpecRequests.
MaxSplitCount == 30
MaxSplitMax == 12
\* Number of messages the application sends on the delete channel.
MaxAcks == 11
\* Largest Options.DeleteInterval, in ticks of the clock.
MaxInterval == 1
\* Number of messages the application sends under SpecWorkers.
MaxFewAcks == 3
\* Largest number of goroutines receiving from BatchDeletes' output.
MaxConcurrency == 2
\* Largest number of entries in the Failed list of a DeleteMessageBatchOutput.
MaxFailed == 2

VARIABLES
  wiring,      \* "plain": Receive used directly; "dispatch": built by Dispatch.Receive;
               \* "split": only the splitter is exercised; "delete": only the delete
               \* path; "options", "panicked": before and after a New that panics
  MaxCount,    \* Options.MaxCount
  capacity,    \* cap(d.receives) (0 when there is no Dispatch)
  started,     \* r.started
  done,        \* number of values buffered in r.done (chan bool, capacity 1)
  loops,       \* the loop goroutines of Start, by the number of the Start call
  count,       \* the value r.CountFunc() returned in the current Run
  tasks,       \* the goroutines Run launched: one per request
  cancelled,   \* the contexts whose Done channel is closed
  fwd,         \* the goroutine ranging over receive.Results(): the message it holds
  efwd,        \* the goroutine ranging over receive.Errors(): number of errors it holds
  receives,    \* the buffer of d.receives
  got,         \* per request of the current Run: the items received from r.results
  errGot,      \* per request of the current Run: the errors received from r.errors
  doneSends,   \* number of completed sends on r.done
  startCalls,  \* number of calls of Start
  panics,      \* number of Start calls that panicked
  splitIn,     \* SpecRequests: the arguments (count, MaxCount)
  splitOut,    \* SpecRequests: the result of Requests
  splitPc,     \* SpecRequests: "idle" before the call, "done" after
  pagesOut,    \* SpecPages: the result of Pager.Pages
  pagesPc,     \* SpecPages: "idle" before the call of Pages, "done" after
  interval,    \* Options.DeleteInterval, in ticks of the clock
  concurrency, \* the number of goroutines receiving from BatchDeletes' output
  sent,        \* number of messages the application has sent on d.deletes
  deletes,     \* the buffer of d.deletes
  input,       \* BatchDeletes' first goroutine: the message it holds
  open,        \* the batcher's open batch
  age,         \* ticks since the first message of the open batch was added
  batches,     \* the sealed batch the batcher is emitting, not yet received
  output,      \* BatchDeletes' second goroutine: the entries it holds
  workers,     \* the goroutines of Delete
  emitted,     \* the messages of all sealed batches, in the order of sealing
  seals,       \* number of batches sealed
  calls,       \* number of DeleteMessageBatch calls made
  openAtCancel \* the messages that were in the open batch when the context was
               \* cancelled

splitVars == <<splitIn, splitOut, splitPc, pagesOut, pagesPc>>

deleteVars == <<interval, concurrency, sent, deletes, input, open, age, batches,
                output, workers, emitted, seals, calls, openAtCancel>>

vars == <<wiring, MaxCount, capacity, started, done, loops, count, tasks, cancelled,
          fwd, efwd, receives, got, errGot, doneSends, startCalls, panics,
          splitVars, deleteVars>>

receiveVars == <<wiring, MaxCount, capacity, started, done, loops, count, tasks,
                 cancelled, fwd, efwd, receives, got, errGot, doneSends, startCalls,
                 panics>>

\* ---------------------------------------------------------------- helpers

Min(a, b) == IF a <= b THEN a ELSE b

\* int(math.Ceil(float64(a)/float64(b))) for b > 0 (\div rounds down).
Ceil(a, b) == -((-a) \div b)

LoopIds == 1 .. MaxStarts

\* The n results DoFunc returns to the i-th goroutine of a Run, told apart by
\* request and position.
Items(i, n) == [p \in 1 .. n |-> <<i, p>>]

\* The n messages of a ReceiveMessage output: a *sqs.Message is opaque to the
\* package, the model does not tell messages apart.
Messages(n) == [p \in 1 .. n |-> "message"]

IsPrefix(s, t) == Len(s) <= Len(t) /\ \A k \in 1 .. Len(s) : s[k] = t[k]

\* ------------------------------------------------------ Receive.Requests

\* The loop body of Requests: n requests left to fill, c results left to ask for.
RECURSIVE RequestsLoop(_, _, _)
RequestsLoop(n, c, max) ==
  IF n <= 0 THEN <<>>
  ELSE <<Min(c, max)>> \o RequestsLoop(n - 1, c - Min(c, max), max)

\* A splitter that rounds the number of requests up by adding one.
RequestsOffByOne(c, max) == RequestsLoop(c \div max + 1, c, max)

\* A splitter that does not cap a request at MaxCount.
RequestsUncapped(c, max) == RequestsLoop(Ceil(c, max), c, c + 1)

Requests(c, max) == RequestsLoop(Ceil(c, max), c, max)

\* ------------------------------------------------------------ Pager.Pages

\* The loop body of Pages: n pages left to fill, cnt results left to page.
RECURSIVE PagesLoop(_, _, _)
PagesLoop(n, cnt, max) ==
  IF n <= 0 THEN <<>>
  ELSE LET c == Min(cnt, max) IN <<c>> \o PagesLoop(n - 1, cnt - c, max)

\* A pager that makes a page of the remainder only when it is not the only page.
PagesRoundedDown(cnt, max) ==
  PagesLoop(IF cnt < max THEN Ceil(cnt, max) ELSE cnt \div max, cnt, max)

Pages(cnt, max) == PagesLoop(Ceil(cnt, max), cnt, max)

\* ------------------------------------------------------------ construction

\* capacity of r.done
DoneCap == 1

NoLoop == [pc |-> "none", ctx |-> 0, late |-> FALSE]
NoResult == [err |-> FALSE, items |-> <<>>]

SplitIdle ==
  /\ splitIn = [count |-> 0, max |-> 1]
  /\ splitOut = <<>>
  /\ splitPc = "idle"
  /\ pagesOut = <<>>
  /\ pagesPc = "idle"

WorkerIds == 1 .. MaxConcurrency

NoWorker == [pc |-> "none", entries |-> <<>>, errs |-> <<>>]

\* No delete channel: Dispatch's Start has not been called.
DeleteIdle ==
  /\ interval = 0
  /\ concurrency = 0
  /\ sent = 0
  /\ deletes = <<>>
  /\ input = <<>>
  /\ open = <<>>
  /\ age = 0
  /\ batches = <<>>
  /\ output = <<>>
  /\ workers = [w \in WorkerIds |-> NoWorker]
  /\ emitted = <<>>
  /\ seals = 0
  /\ calls = 0
  /\ openAtCancel = {}

\* New(o) followed by nothing: no loop, empty channels.
New(w, m, cap) ==
  /\ wiring = w
  /\ MaxCount = m
  /\ capacity = cap
  /\ started = FALSE
  /\ done = 0
  /\ loops = [l \in LoopIds |-> NoLoop]
  /\ count = 0
  /\ tasks = <<>>
  /\ cancelled = {}
  /\ fwd = <<>>
  /\ efwd = 0
  /\ receives = <<>>
  /\ got = <<>>
  /\ errGot = <<>>
  /\ doneSends = 0
  /\ startCalls = 0
  /\ panics = 0

\* ------------------------------------------------------------------ Start

\* The loop goroutines launched so far; they are numbered in the order of launch.
Launched == {l \in LoopIds : loops[l].pc # "none"}

\* The contexts passed to Start so far; contexts are numbered in the order of
\* their first use. A caller passes one of them again or a new one.
UsedContexts == {loops[l].ctx : l \in Launched}
Contexts == UsedContexts \cup {Cardinality(UsedContexts) + 1}

\* A Start that does not look at r.started: it always launches a loop goroutine.
StartUnguarded(c) ==
  /\ startCalls < MaxStarts
  /\ startCalls' = startCalls + 1
  /\ started' = TRUE
  /\ loops' = [loops EXCEPT ![Cardinality(Launched) + 1] =
                                [pc |-> "select", ctx |-> c, late |-> FALSE]]
  /\ UNCHANGED <<wiring, MaxCount, capacity, done, count, tasks, cancelled, fwd, efwd,
                 receives, got, errGot, doneSends, panics, splitVars, deleteVars>>

\* Start(ctx): panics when r.started, else sets it and launches the loop goroutine.
Start(c) ==
  /\ startCalls < MaxStarts
  /\ startCalls' = startCalls + 1
  /\ IF started
       THEN /\ panics' = panics + 1
            /\ UNCHANGED <<started, loops>>
       ELSE /\ started' = TRUE
            /\ loops' = [loops EXCEPT ![Cardinality(Launched) + 1] =
                                          [pc |-> "select", ctx |-> c, late |-> FALSE]]
            /\ UNCHANGED panics
  /\ UNCHANGED <<wiring, MaxCount, capacity, done, count, tasks, cancelled, fwd, efwd,
                 receives, got, errGot, doneSends, splitVars, deleteVars>>

\* cancel() of the context c. A context cancelled before it is passed to Start
\* is one cancelled before the loop's first select.
Cancel(c) ==
  /\ c \in UsedContexts
  /\ c \notin cancelled
  /\ cancelled' = cancelled \cup {c}
  /\ UNCHANGED <<wiring, MaxCount, capacity, started, done, loops, count, tasks, fwd,
                 efwd, receives, got, errGot, doneSends, startCalls, panics,
                 splitVars, deleteVars>>

\* A select that takes its default case although ctx.Done() is ready.
SelectsDefaultAlways(c) == TRUE

\* select { case <-ctx.Done(): ... default: ... } takes default only when Done is
\* not ready.
SelectsDefault(c) == c \notin cancelled

\* A ctx.Done() branch that leaves r.started set.
LoopSelectDoneKeepsStarted(l) ==
  /\ loops[l].pc = "select"
  /\ loops[l].ctx \in cancelled
  /\ loops' = [loops EXCEPT ![l].pc = "sendDone"]
  /\ UNCHANGED <<wiring, MaxCount, capacity, started, done, count, tasks, cancelled,
                 fwd, efwd, receives, got, errGot, doneSends, startCalls, panics,
                 splitVars, deleteVars>>

\* case <-ctx.Done(): r.started = false
LoopSelectDone(l) ==
  /\ loops[l].pc = "select"
  /\ loops[l].ctx \in cancelled
  /\ started' = FALSE
  /\ loops' = [loops EXCEPT ![l].pc = "sendDone"]
  /\ UNCHANGED <<wiring, MaxCount, capacity, done, count, tasks, cancelled, fwd, efwd,
                 receives, got, errGot, doneSends, startCalls, panics,
                 splitVars, deleteVars>>

\* A loop that sends on r.done and does not return.
LoopSendDoneNoReturn(l) ==
  /\ loops[l].pc = "sendDone"
  /\ done < DoneCap
  /\ done' = done + 1
  /\ doneSends' = doneSends + 1
  /\ UNCHANGED <<wiring, MaxCount, capacity, started, loops, count, tasks, cancelled,
                 fwd, efwd, receives, got, errGot, startCalls, panics, splitVars, deleteVars>>

\* r.done <- true; return
LoopSendDone(l) ==
  /\ loops[l].pc = "sendDone"
  /\ done < DoneCap
  /\ done' = done + 1
  /\ doneSends' = doneSends + 1
  /\ loops' = [loops EXCEPT ![l].pc = "returned"]
  /\ UNCHANGED <<wiring, MaxCount, capacity, started, count, tasks, cancelled, fwd,
                 efwd, receives, got, errGot, startCalls, panics, splitVars, deleteVars>>

\* default: about to call r.Run()
LoopSelectDefault(l) ==
  /\ loops[l].pc = "select"
  /\ SelectsDefault(loops[l].ctx)
  /\ loops' = [loops EXCEPT ![l].pc = "run", ![l].late = loops[l].ctx \in cancelled]
  /\ UNCHANGED <<wiring, MaxCount, capacity, started, done, count, tasks, cancelled,
                 fwd, efwd, receives, got, errGot, doneSends, startCalls, panics, splitVars, deleteVars>>

\* -------------------------------------------------------------------- Run

\* A ReceiveCapacity that does not look at what is buffered.
ReceiveCapacityIgnoresLength == capacity

\* Dispatch.ReceiveCapacity: cap(d.receives) - len(d.receives)
ReceiveCapacity == capacity - Len(receives)

\* What r.CountFunc() can return.
CountFuncValues ==
  IF wiring = "dispatch" THEN {ReceiveCapacity} ELSE 0 .. MaxDemand

NewTask(l, req) ==
  [req |-> req, pc |-> "call", res |-> NoResult, errs |-> 0, out |-> <<>>,
   late |-> FALSE, stale |-> FALSE, owner |-> l]

\* The goroutines of a Run that are still running when the Run returns.
Unfinished ==
  LET old == SelectSeq(tasks, LAMBDA t : t.pc # "done")
  IN [i \in 1 .. Len(old) |-> [old[i] EXCEPT !.stale = TRUE]]

\* Run up to wg.Wait(): CountFunc, Requests, one goroutine per request.
RunBegin(l) ==
  /\ loops[l].pc = "run"
  /\ \E c \in CountFuncValues :
       LET reqs == Requests(c, MaxCount) IN
         /\ count' = c
         /\ tasks' = [i \in 1 .. Len(reqs) |-> NewTask(l, reqs[i])] \o tasks
         /\ got' = [i \in 1 .. Len(reqs) |-> <<>>]
         /\ errGot' = [i \in 1 .. Len(reqs) |-> 0]
  /\ loops' = [loops EXCEPT ![l].pc = "wait"]
  /\ UNCHANGED <<wiring, MaxCount, capacity, started, done, cancelled, fwd, efwd,
                 receives, doneSends, startCalls, panics, splitVars, deleteVars>>

\* A Wait that returns at once.
WaitGroupNoWait == TRUE

\* wg.Wait() returns when every goroutine of this Run has called wg.Done().
WaitGroupDone == \A i \in DOMAIN tasks : tasks[i].stale \/ tasks[i].pc = "done"

\* wg.Wait() returns, Run returns, the loop is back at its select. The goroutines
\* that called wg.Done() are gone, and so are the Run's locals.
RunWait(l) ==
  /\ loops[l].pc = "wait"
  /\ WaitGroupDone
  /\ loops' = [loops EXCEPT ![l].pc = "select"]
  /\ tasks' = Unfinished
  /\ count' = 0
  /\ got' = <<>>
  /\ errGot' = <<>>
  /\ UNCHANGED <<wiring, MaxCount, capacity, started, done, cancelled, fwd, efwd,
                 receives, doneSends, startCalls, panics, splitVars, deleteVars>>

\* --------------------------------------------------------------------- Do

\* How many results DoFunc can return for a request of req.
ReturnCounts(req) ==
  IF wiring = "dispatch" THEN {0, 1, req} \cap (0 .. req) ELSE 0 .. MaxItems

\* What DoFunc can return to the i-th goroutine: (results, err).
DoFuncResults(i, req) ==
  IF wiring = "dispatch"
    THEN {[err |-> TRUE, items |-> <<>>]}
           \cup {[err |-> FALSE, items |-> Messages(n)] : n \in ReturnCounts(req)}
    ELSE {[err |-> FALSE, items |-> Items(i, n)] : n \in ReturnCounts(req)}
           \cup {[err |-> TRUE, items |-> Items(i, n)] : n \in {0, MaxItems}}

\* A Do that also forwards the results of a failed call.
DoPlanKeepsResults(r) ==
  [errs |-> IF r.err THEN 1 ELSE 0, out |-> r.items]

\* Do: what is sent for DoFunc's return value r: the error alone, or each result.
DoPlan(r) ==
  IF r.err THEN [errs |-> 1, out |-> <<>>] ELSE [errs |-> 0, out |-> r.items]

\* The goroutine calls r.DoFunc(request).
TaskCall(i) ==
  /\ i \in DOMAIN tasks
  /\ tasks[i].pc = "call"
  /\ tasks' = [tasks EXCEPT ![i].pc = "inflight",
                             ![i].late = loops[tasks[i].owner].ctx \in cancelled]
  /\ UNCHANGED <<wiring, MaxCount, capacity, started, done, loops, count, cancelled,
                 fwd, efwd, receives, got, errGot, doneSends, startCalls, panics,
                 splitVars, deleteVars>>

\* A Do that does not return after it has sent the error of a failed call.
AfterSendErrorHangs(t) ==
  IF t.errs = 0 /\ t.out = <<>> /\ ~t.res.err THEN [t EXCEPT !.pc = "done"] ELSE t

AfterSend(t) == IF t.errs = 0 /\ t.out = <<>> THEN [t EXCEPT !.pc = "done"] ELSE t

\* r.DoFunc returns.
TaskReturn(i) ==
  /\ i \in DOMAIN tasks
  /\ tasks[i].pc = "inflight"
  /\ \E r \in DoFuncResults(i, tasks[i].req) :
       tasks' = [tasks EXCEPT ![i] =
                   AfterSend([@ EXCEPT !.pc = "send", !.res = r,
                                       !.errs = DoPlan(r).errs, !.out = DoPlan(r).out])]
  /\ UNCHANGED <<wiring, MaxCount, capacity, started, done, loops, count, cancelled,
                 fwd, efwd, receives, got, errGot, doneSends, startCalls, panics, splitVars, deleteVars>>

\* r.errors <- err: the channel is unbuffered, the receiver takes the error in the
\* same step.
TaskSendErr(i) ==
  /\ i \in DOMAIN tasks
  /\ tasks[i].pc = "send"
  /\ tasks[i].errs > 0
  /\ efwd = 0
  /\ efwd' = IF wiring = "dispatch" THEN 1 ELSE 0
  /\ tasks' = [tasks EXCEPT ![i] = AfterSend([@ EXCEPT !.errs = @ - 1])]
  /\ errGot' = IF i \in DOMAIN errGot /\ ~tasks[i].stale
                 THEN [errGot EXCEPT ![i] = @ + 1] ELSE errGot
  /\ UNCHANGED <<wiring, MaxCount, capacity, started, done, loops, count, cancelled,
                 fwd, receives, got, doneSends, startCalls, panics,
                 splitVars, deleteVars>>

\* A Do that ranges over the results from the last to the first.
NextResultLast(out) == Len(out)

\* for _, result := range results: the position in what is left of the results
\* of the one sent next.
NextResult(out) == 1

Without(out, k) == SubSeq(out, 1, k - 1) \o SubSeq(out, k + 1, Len(out))

\* r.results <- result: unbuffered as well.
TaskSendResult(i) ==
  /\ i \in DOMAIN tasks
  /\ tasks[i].pc = "send"
  /\ tasks[i].errs = 0
  /\ tasks[i].out # <<>>
  /\ fwd = <<>>
  /\ LET item == tasks[i].out[NextResult(tasks[i].out)] IN
       /\ fwd' = IF wiring = "dispatch" THEN <<item>> ELSE <<>>
       /\ got' = IF i \in DOMAIN got /\ ~tasks[i].stale
                   THEN [got EXCEPT ![i] = Append(@, item)] ELSE got
  /\ tasks' = [tasks EXCEPT ![i] = AfterSend([@ EXCEPT !.out = Without(@, NextResult(@))])]
  /\ UNCHANGED <<wiring, MaxCount, capacity, started, done, loops, count, cancelled,
                 efwd, receives, errGot, doneSends, startCalls, panics,
                 splitVars, deleteVars>>

\* ------------------------------------------------------- the package's test

\* <-r.done (TestReceiveDone)
ReadDone ==
  /\ done > 0
  /\ done' = done - 1
  /\ UNCHANGED <<wiring, MaxCount, capacity, started, loops, count, tasks, cancelled,
                 fwd, efwd, receives, got, errGot, doneSends, startCalls, panics, splitVars, deleteVars>>

\* ------------------------------------------------------- Dispatch.Receive

\* receive.New(...); receive.Start(ctx)
DispatchReceive == startCalls = 0 /\ Start(1)

\* A forwarding goroutine that sends the message it holds and holds it still.
FwdSendKeeps ==
  /\ fwd # <<>>
  /\ Len(receives) < capacity
  /\ receives' = Append(receives, fwd[1])
  /\ UNCHANGED <<wiring, MaxCount, capacity, started, done, loops, count, tasks,
                 cancelled, fwd, efwd, got, errGot, doneSends, startCalls, panics,
                 splitVars, deleteVars>>

\* d.receives <- message, in the goroutine ranging over receive.Results()
FwdSend ==
  /\ fwd # <<>>
  /\ Len(receives) < capacity
  /\ receives' = Append(receives, fwd[1])
  /\ fwd' = <<>>
  /\ UNCHANGED <<wiring, MaxCount, capacity, started, done, loops, count, tasks,
                 cancelled, efwd, got, errGot, doneSends, startCalls, panics,
                 splitVars, deleteVars>>

\* d.errors <- err, in the goroutine ranging over receive.Errors(); d.errors is
\* unbuffered and the application takes the error in the same step.
EfwdSend ==
  /\ efwd > 0
  /\ efwd' = efwd - 1
  /\ UNCHANGED <<wiring, MaxCount, capacity, started, done, loops, count, tasks,
                 cancelled, fwd, receives, got, errGot, doneSends, startCalls, panics, splitVars, deleteVars>>

\* The application reads a message from the receive channel.
AppReceive ==
  /\ receives # <<>>
  /\ receives' = Tail(receives)
  /\ UNCHANGED <<wiring, MaxCount, capacity, started, done, loops, count, tasks,
                 cancelled, fwd, efwd, got, errGot, doneSends, startCalls, panics, splitVars, deleteVars>>

\* ----------------------------------------------------------- the splitter

\* r.Requests(count) on a Receive with the given MaxCount
CallRequests ==
  /\ splitPc = "idle"
  /\ splitOut' = Requests(splitIn.count, splitIn.max)
  /\ splitPc' = "done"
  /\ UNCHANGED <<splitIn, pagesOut, pagesPc, receiveVars, deleteVars>>

\* p.Pages(count) on a Pager whose reader's MaxPageSize() is the given maximum
CallPages ==
  /\ pagesPc = "idle"
  /\ pagesOut' = Pages(splitIn.count, splitIn.max)
  /\ pagesPc' = "done"
  /\ UNCHANGED <<splitIn, splitOut, splitPc, receiveVars, deleteVars>>

\* ---------------------------------------------------------- specifications

ReceiveNext ==
  \/ \E l \in LoopIds : LoopSelectDone(l)
  \/ \E l \in LoopIds : LoopSendDone(l)
  \/ \E l \in LoopIds : LoopSelectDefault(l)
  \/ \E l \in LoopIds : RunBegin(l)
  \/ \E l \in LoopIds : RunWait(l)
  \/ \E i \in 1 .. Len(tasks) : TaskCall(i)
  \/ \E i \in 1 .. Len(tasks) : TaskReturn(i)
  \/ \E i \in 1 .. Len(tasks) : TaskSendErr(i)
  \/ \E i \in 1 .. Len(tasks) : TaskSendResult(i)

Init == (\E m \in 1 .. MaxMaxCount : New("plain", m, 0)) /\ SplitIdle /\ DeleteIdle

Next ==
  \/ \E c \in Contexts : Start(c)
  \/ \E c \in UsedContexts : Cancel(c)
  \/ ReadDone
  \/ ReceiveNext

Spec == Init /\ [][Next]_vars

\* Start defaults a ReceiveBufferSize of 0 to 1.
BufferSize(o) == IF o = 0 THEN 1 ELSE o

InitDispatch ==
  (\E o \in 0 .. MaxBuffer : New("dispatch", MaxBatchSize, BufferSize(o))) /\ SplitIdle /\ DeleteIdle

NextDispatch ==
  \/ DispatchReceive
  \/ Cancel(1)
  \/ FwdSend
  \/ EfwdSend
  \/ AppReceive
  \/ ReceiveNext

SpecDispatch == InitDispatch /\ [][NextDispatch]_vars

InitRequests ==
  /\ New("split", 1, 0)
  /\ splitIn \in [count : 0 .. MaxSplitCount, max : 1 .. MaxSplitMax]
  /\ splitOut = <<>>
  /\ splitPc = "idle"
  /\ pagesOut = <<>>
  /\ pagesPc = "idle"
  /\ DeleteIdle

NextRequests == CallRequests

SpecRequests == InitRequests /\ [][NextRequests]_vars

\* Requests and Pages called with the same count and the same maximum.
NextPages == CallRequests \/ CallPages

SpecPages == InitRequests /\ [][NextPages]_vars

\* The goroutines Run can launch at most: one per unit of demand when MaxCount = 1.
\* Go schedules every runnable goroutine, and the readers of Results() and
\* Errors() keep reading.
Fairness ==
  \A i \in 1 .. MaxDemand :
    /\ WF_vars(TaskCall(i))
    /\ WF_vars(TaskReturn(i))
    /\ WF_vars(TaskSendErr(i))
    /\ WF_vars(TaskSendResult(i))

\* The goroutines of a Dispatch are scheduled: the loop, the goroutines of a Run
\* (at most one per MaxBatchSize of buffer), the two forwarding goroutines, with
\* ReceiveMessage returning and the application reading d.errors. Nothing is
\* assumed about the application reading d.receives or cancelling.
DispatchFairness ==
  /\ WF_vars(LoopSelectDefault(1))
  /\ WF_vars(RunBegin(1))
  /\ WF_vars(RunWait(1))
  /\ WF_vars(FwdSend)
  /\ WF_vars(EfwdSend)
  /\ \A i \in 1 .. Ceil(BufferSize(MaxBuffer), MaxBatchSize) :
       /\ WF_vars(TaskCall(i))
       /\ WF_vars(TaskReturn(i))
       /\ WF_vars(TaskSendErr(i))
       /\ WF_vars(TaskSendResult(i))

FairDispatch == SpecDispatch /\ DispatchFairness

\* A Receive that is started once, as Dispatch.Receive and all but one of the
\* package's tests do.
NextOnce ==
  \/ startCalls = 0 /\ Start(1)
  \/ Cancel(1)
  \/ ReadDone
  \/ ReceiveNext

FairSpec == Init /\ [][NextOnce]_vars /\ Fairness

\* ------------------------------------------- a service with messages to spare

\* The ReceiveBufferSize of the example of Requests: count=25, MaxCount=10.
ExampleCapacity == 25

\* ReceiveMessage returns without an error and with as many messages as
\* MaxNumberOfMessages asked for.
ExactReturn(i) == ~tasks'[i].res.err /\ Len(tasks'[i].res.items) = tasks[i].req

ExactTaskReturn(i) == TaskReturn(i) /\ ExactReturn(i)

InitExample == New("dispatch", MaxBatchSize, BufferSize(ExampleCapacity)) /\ SplitIdle /\ DeleteIdle

\* Dispatch.Receive against that service, its context not cancelled: no call
\* fails, so no error is sent.
NextExample ==
  \/ DispatchReceive
  \/ FwdSend
  \/ AppReceive
  \/ LoopSelectDefault(1)
  \/ RunBegin(1)
  \/ RunWait(1)
  \/ \E i \in 1 .. Len(tasks) : TaskCall(i)
  \/ \E i \in 1 .. Len(tasks) : ExactTaskReturn(i)
  \/ \E i \in 1 .. Len(tasks) : TaskSendResult(i)

\* The goroutines of the Run and the goroutine ranging over receive.Results() are
\* scheduled and ReceiveMessage returns; nothing is assumed about the application.
ExampleFairness ==
  /\ WF_vars(FwdSend)
  /\ \A i \in 1 .. Ceil(ExampleCapacity, MaxBatchSize) :
       /\ WF_vars(TaskCall(i))
       /\ WF_vars(ExactTaskReturn(i))
       /\ WF_vars(TaskSendResult(i))

SpecExample == InitExample /\ [][NextExample]_vars /\ ExampleFairness

\* ------------------------------------------------- a service without errors

\* ReceiveMessage returns without an error, with at most the number of messages
\* MaxNumberOfMessages asked for.
TaskReturnOk(i) == TaskReturn(i) /\ ~tasks'[i].res.err

\* Dispatch.Receive against a service whose calls do not fail: no error is sent.
NextStalled ==
  \/ DispatchReceive
  \/ Cancel(1)
  \/ FwdSend
  \/ AppReceive
  \/ LoopSelectDone(1)
  \/ LoopSendDone(1)
  \/ LoopSelectDefault(1)
  \/ RunBegin(1)
  \/ RunWait(1)
  \/ \E i \in 1 .. Len(tasks) : TaskCall(i)
  \/ \E i \in 1 .. Len(tasks) : TaskReturnOk(i)
  \/ \E i \in 1 .. Len(tasks) : TaskSendResult(i)

SpecStalled == InitDispatch /\ [][NextStalled]_vars

\* The loop, the goroutines of a Run and the goroutine ranging over
\* receive.Results() are scheduled and ReceiveMessage returns. Nothing is assumed
\* about the application: it may stop reading d.receives at any moment.
StalledFairness ==
  /\ WF_vars(LoopSelectDone(1))
  /\ WF_vars(LoopSendDone(1))
  /\ WF_vars(LoopSelectDefault(1))
  /\ WF_vars(RunBegin(1))
  /\ WF_vars(RunWait(1))
  /\ WF_vars(FwdSend)
  /\ \A i \in 1 .. Ceil(BufferSize(MaxBuffer), MaxBatchSize) :
       /\ WF_vars(TaskCall(i))
       /\ WF_vars(TaskReturnOk(i))
       /\ WF_vars(TaskSendResult(i))

FairStalled == SpecStalled /\ StalledFairness

\* The same with an application that keeps reading d.receives.
FairReading == SpecStalled /\ StalledFairness /\ WF_vars(AppReceive)

\* ------------------------------------------------- Start called concurrently

\* Start is not synchronized: the read of r.started (line 55) and the write
\* r.started = true (line 58) are two steps, and other goroutines run in between.
\* A loop with pc "starting" stands for a Start call that has read r.started as
\* false and has not yet written it.

\* if r.started { panic(...) }
StartCheck(c) ==
  /\ startCalls < MaxStarts
  /\ startCalls' = startCalls + 1
  /\ IF started
       THEN /\ panics' = panics + 1
            /\ UNCHANGED loops
       ELSE /\ loops' = [loops EXCEPT ![Cardinality(Launched) + 1] =
                                          [pc |-> "starting", ctx |-> c, late |-> FALSE]]
            /\ UNCHANGED panics
  /\ UNCHANGED <<wiring, MaxCount, capacity, started, done, count, tasks, cancelled,
                 fwd, efwd, receives, got, errGot, doneSends, splitVars, deleteVars>>

\* r.started = true; go func() { ... }()
StartLaunch(l) ==
  /\ loops[l].pc = "starting"
  /\ started' = TRUE
  /\ loops' = [loops EXCEPT ![l].pc = "select"]
  /\ UNCHANGED <<wiring, MaxCount, capacity, done, count, tasks, cancelled, fwd, efwd,
                 receives, got, errGot, doneSends, startCalls, panics,
                 splitVars, deleteVars>>

\* A Run whose CountFunc returns 0: no request, no goroutine.
RunIdle(l) == RunBegin(l) /\ count' = 0

\* A Receive whose Start is called from several goroutines, with no demand.
NextRace ==
  \/ \E c \in Contexts : StartCheck(c)
  \/ \E l \in LoopIds : StartLaunch(l)
  \/ \E c \in UsedContexts : Cancel(c)
  \/ ReadDone
  \/ \E l \in LoopIds : LoopSelectDone(l)
  \/ \E l \in LoopIds : LoopSendDone(l)
  \/ \E l \in LoopIds : LoopSelectDefault(l)
  \/ \E l \in LoopIds : RunIdle(l)
  \/ \E l \in LoopIds : RunWait(l)

SpecRace == Init /\ [][NextRace]_vars

\* --------------------------------------------------------------------- New

\* A New that accepts a MaxCount of 0.
NewPanicsNegative(m) == m < 0

\* if o.MaxCount <= 0 { panic(...) }
NewPanics(m) == m <= 0

\* New(o): wiring is "options" while o has only been written down, "panicked"
\* when New panicked and "plain" when it returned the Receive (whose fields are
\* those of New above).
CallNew ==
  /\ wiring = "options"
  /\ wiring' = IF NewPanics(MaxCount) THEN "panicked" ELSE "plain"
  /\ UNCHANGED <<MaxCount, capacity, started, done, loops, count, tasks, cancelled,
                 fwd, efwd, receives, got, errGot, doneSends, startCalls, panics,
                 splitVars, deleteVars>>

\* Options values with a negative, zero or positive MaxCount.
InitNew ==
  (\E m \in -MaxMaxCount .. MaxMaxCount : New("options", m, 0)) /\ SplitIdle /\ DeleteIdle

\* The Receive is used only once New has returned it.
NextNew ==
  \/ CallNew
  \/ wiring = "plain" /\ NextOnce

SpecNew == InitNew /\ [][NextNew]_vars

\* ------------------------------------------------------------ the delete path

\* The messages the application acknowledges are told apart by their receipt
\* handles: the k-th message sent on d.deletes has the receipt handle k.

Digits == <<"0", "1", "2", "3", "4", "5", "6", "7", "8", "9">>

\* strconv.Itoa(i) for i >= 0: the decimal digits of i, the most significant first.
RECURSIVE Itoa(_)
Itoa(i) ==
  IF i < 10 THEN <<Digits[i + 1]>> ELSE Itoa(i \div 10) \o <<Digits[(i % 10) + 1]>>

\* A BatchDeletes that leaves the last message of a batch out of the entries.
EntriesTruncated(batch) ==
  [p \in 1 .. Len(batch) - 1 |-> [Id |-> Itoa(p - 1), ReceiptHandle |-> batch[p]]]

\* A BatchDeletes that numbers the entries from 1.
EntriesFromOne(batch) ==
  [p \in 1 .. Len(batch) |-> [Id |-> Itoa(p), ReceiptHandle |-> batch[p]]]

\* The entries BatchDeletes builds for a batch: Go's index i is p - 1.
Entries(batch) ==
  [p \in 1 .. Len(batch) |-> [Id |-> Itoa(p - 1), ReceiptHandle |-> batch[p]]]

\* A Start that launches one goroutine of Delete too many.
StartDeleteOneMore(i, k) ==
  /\ interval = i
  /\ concurrency = k
  /\ sent = 0
  /\ deletes = <<>>
  /\ input = <<>>
  /\ open = <<>>
  /\ age = 0
  /\ batches = <<>>
  /\ output = <<>>
  /\ workers = [w \in WorkerIds |->
                  IF w <= k + 1 THEN [NoWorker EXCEPT !.pc = "select"] ELSE NoWorker]
  /\ emitted = <<>>
  /\ seals = 0
  /\ calls = 0
  /\ openAtCancel = {}

\* Start: the delete channel is empty and Delete's goroutines are at their select.
StartDelete(i, k) ==
  /\ interval = i
  /\ concurrency = k
  /\ sent = 0
  /\ deletes = <<>>
  /\ input = <<>>
  /\ open = <<>>
  /\ age = 0
  /\ batches = <<>>
  /\ output = <<>>
  /\ workers = [w \in WorkerIds |->
                  IF w <= k THEN [NoWorker EXCEPT !.pc = "select"] ELSE NoWorker]
  /\ emitted = <<>>
  /\ seals = 0
  /\ calls = 0
  /\ openAtCancel = {}

\* delete <- message, by the application: d.deletes holds MaxBatchSize messages.
SendDelete ==
  /\ sent < MaxAcks
  /\ Len(deletes) < MaxBatchSize
  /\ sent' = sent + 1
  /\ deletes' = Append(deletes, sent + 1)
  /\ UNCHANGED <<interval, concurrency, input, open, age, batches, output, workers,
                 emitted, seals, calls, openAtCancel,
                 receiveVars, splitVars>>

\* A goroutine that takes the newest message of d.deletes, not the oldest.
BatchDeletesCopyNewest ==
  /\ input = <<>>
  /\ deletes # <<>>
  /\ input' = <<deletes[Len(deletes)]>>
  /\ deletes' = SubSeq(deletes, 1, Len(deletes) - 1)
  /\ UNCHANGED <<interval, concurrency, sent, open, age, batches, output, workers,
                 emitted, seals, calls, openAtCancel,
                 receiveVars, splitVars>>

\* for m := range deletes
BatchDeletesCopy ==
  /\ input = <<>>
  /\ deletes # <<>>
  /\ input' = <<Head(deletes)>>
  /\ deletes' = Tail(deletes)
  /\ UNCHANGED <<interval, concurrency, sent, open, age, batches, output, workers,
                 emitted, seals, calls, openAtCancel,
                 receiveVars, splitVars>>

\* A BatchDeletes that asks for batches of one message more.
NewBatchSizeOneMore == MaxBatchSize + 1

\* A BatchDeletes that asks for twice the interval.
NewBatchIntervalDoubled == 2 * interval

\* bach.NewBatch(input, MaxBatchSize, d.DeleteInterval): the maximum size and the
\* interval BatchDeletes asks the batcher for.
NewBatchSize == MaxBatchSize
NewBatchInterval == interval

\* The batcher's size trigger: the batch has reached the maximum size.
SizeTrigger(b) == Len(b) >= NewBatchSize

\* The batcher's time trigger: the interval has elapsed since the first message
\* of the open batch was added.
TimeTrigger == age >= NewBatchInterval

\* The batcher seals the batch b and emits it: a hand-off, the batcher goes on
\* when the batch has been received. The next batch is empty.
Seal(b) ==
  /\ batches' = <<b>>
  /\ emitted' = emitted \o b
  /\ seals' = seals + 1
  /\ open' = <<>>
  /\ age' = 0

\* input <- m, received by the batcher: the message joins the open batch, which is
\* sealed at once when that fills it. The first message of a batch starts the timer.
NewBatchAdd ==
  /\ batches = <<>>
  /\ input # <<>>
  /\ input' = <<>>
  /\ LET b == Append(open, input[1]) IN
       IF SizeTrigger(b)
         THEN Seal(b)
         ELSE /\ open' = b
              /\ age' = IF open = <<>> THEN 0 ELSE age
              /\ UNCHANGED <<batches, emitted, seals>>
  /\ UNCHANGED <<interval, concurrency, sent, deletes, output, workers, calls,
                 openAtCancel,
                 receiveVars, splitVars>>

\* The clock ticks while the timer of the open batch is running.
NewBatchTick ==
  /\ open # <<>>
  /\ ~TimeTrigger
  /\ age' = age + 1
  /\ UNCHANGED <<interval, concurrency, sent, deletes, input, open, batches, output,
                 workers, emitted, seals, calls, openAtCancel,
                 receiveVars, splitVars>>

\* The timer of the open batch expires: the batch is sealed as it is.
NewBatchTimeout ==
  /\ batches = <<>>
  /\ open # <<>>
  /\ TimeTrigger
  /\ Seal(open)
  /\ UNCHANGED <<interval, concurrency, sent, deletes, input, output, workers, calls,
                 openAtCancel,
                 receiveVars, splitVars>>

\* for batch := range batches: the entries are built
BatchDeletesEntries ==
  /\ output = <<>>
  /\ batches # <<>>
  /\ output' = <<Entries(Head(batches))>>
  /\ batches' = Tail(batches)
  /\ UNCHANGED <<interval, concurrency, sent, deletes, input, open, age, workers,
                 emitted, seals, calls, openAtCancel,
                 receiveVars, splitVars>>

\* What DeleteMessageBatch can return for the entries: a transport error, or an
\* output whose Failed list names some of the entries, in their order.
DeleteOutputs(entries) ==
  {[err |-> TRUE, failed |-> <<>>]}
    \cup UNION {{[err |-> FALSE, failed |-> [q \in 1 .. n |-> entries[f[q]].Id]] :
                   f \in {g \in [1 .. n -> 1 .. Len(entries)] :
                            \A q \in 1 .. n - 1 : g[q] < g[q + 1]}} :
                n \in 0 .. Min(MaxFailed, Len(entries))}

\* A Delete that sends one BatchDeleteError per entry of the batch.
DeleteErrorsPerEntry(entries, out) ==
  IF out.err
    THEN <<[kind |-> "call"]>>
    ELSE [q \in 1 .. Len(entries) |->
            [kind |-> "batch", Id |-> entries[q].Id,
             ReceiptHandle |-> entries[q].ReceiptHandle]]

\* A Delete that, after the error of the call, also sends one BatchDeleteError
\* per entry.
DeleteErrorsAlsoPerItem(entries, out) ==
  IF out.err
    THEN <<[kind |-> "call"]>> \o
         [q \in 1 .. Len(entries) |->
            [kind |-> "batch", Id |-> entries[q].Id,
             ReceiptHandle |-> entries[q].ReceiptHandle]]
    ELSE [q \in 1 .. Len(out.failed) |->
            [kind |-> "batch", Id |-> out.failed[q],
             ReceiptHandle |-> entries[q].ReceiptHandle]]

\* The errors Delete sends for an output: the call's error, or one
\* BatchDeleteError per failure, with the ReceiptHandle of entries[i] for the i-th
\* failure.
DeleteErrors(entries, out) ==
  IF out.err
    THEN <<[kind |-> "call"]>>
    ELSE [q \in 1 .. Len(out.failed) |->
            [kind |-> "batch", Id |-> out.failed[q],
             ReceiptHandle |-> entries[q].ReceiptHandle]]

\* A Delete whose goroutine still receives entries after it has returned.
DeleteReceiveAfterReturn(w) ==
  /\ workers[w].pc \in {"select", "returned"}
  /\ output # <<>>
  /\ workers' = [workers EXCEPT ![w] = [pc |-> "call", entries |-> output[1], errs |-> <<>>]]
  /\ output' = <<>>
  /\ calls' = calls + 1
  /\ UNCHANGED <<interval, concurrency, sent, deletes, input, open, age, batches,
                 emitted, seals, openAtCancel, receiveVars, splitVars>>

\* case entries := <-batches, which is the output <- entries of BatchDeletes:
\* DeleteMessageBatchWithContext is called with the entries.
DeleteReceive(w) ==
  /\ workers[w].pc = "select"
  /\ output # <<>>
  /\ workers' = [workers EXCEPT ![w] = [pc |-> "call", entries |-> output[1], errs |-> <<>>]]
  /\ output' = <<>>
  /\ calls' = calls + 1
  /\ UNCHANGED <<interval, concurrency, sent, deletes, input, open, age, batches,
                 emitted, seals, openAtCancel,
                 receiveVars, splitVars>>

\* DeleteMessageBatchWithContext returns.
DeleteReturn(w) ==
  /\ workers[w].pc = "call"
  /\ \E out \in DeleteOutputs(workers[w].entries) :
       LET errs == DeleteErrors(workers[w].entries, out) IN
         workers' = [workers EXCEPT ![w] =
                       IF errs = <<>>
                         THEN [NoWorker EXCEPT !.pc = "select"]
                         ELSE [@ EXCEPT !.pc = "send", !.errs = errs]]
  /\ UNCHANGED <<interval, concurrency, sent, deletes, input, open, age, batches,
                 output, emitted, seals, calls, openAtCancel,
                 receiveVars, splitVars>>

\* A Delete that submits the entries again once the errors are handed off.
DeleteSendErrRetries(w) ==
  /\ workers[w].pc = "send"
  /\ workers' = [workers EXCEPT ![w] =
                   IF Len(@.errs) = 1
                     THEN [@ EXCEPT !.pc = "call", !.errs = <<>>]
                     ELSE [@ EXCEPT !.errs = Tail(@)]]
  /\ calls' = IF Len(workers[w].errs) = 1 THEN calls + 1 ELSE calls
  /\ UNCHANGED <<interval, concurrency, sent, deletes, input, open, age, batches,
                 output, emitted, seals, openAtCancel, receiveVars, splitVars>>

\* errors <- err: d.errors is unbuffered, the application takes the error in the
\* same step.
DeleteSendErr(w) ==
  /\ workers[w].pc = "send"
  /\ workers' = [workers EXCEPT ![w] =
                   IF Len(@.errs) = 1
                     THEN [NoWorker EXCEPT !.pc = "select"]
                     ELSE [@ EXCEPT !.errs = Tail(@)]]
  /\ UNCHANGED <<interval, concurrency, sent, deletes, input, open, age, batches,
                 output, emitted, seals, calls, openAtCancel,
                 receiveVars, splitVars>>

\* case <-ctx.Done(): return
DeleteDone(w) ==
  /\ workers[w].pc = "select"
  /\ 1 \in cancelled
  /\ workers' = [workers EXCEPT ![w].pc = "returned"]
  /\ UNCHANGED <<interval, concurrency, sent, deletes, input, open, age, batches,
                 output, emitted, seals, calls, openAtCancel,
                 receiveVars, splitVars>>

\* cancel() of the context passed to Dispatch's Start; openAtCancel remembers the
\* open batch of that moment when record is set.
CancelContext(record) ==
  /\ 1 \notin cancelled
  /\ cancelled' = cancelled \cup {1}
  /\ openAtCancel' = IF record THEN {open[p] : p \in 1 .. Len(open)} ELSE openAtCancel
  /\ UNCHANGED <<wiring, MaxCount, capacity, started, done, loops, count, tasks, fwd,
                 efwd, receives, got, errGot, doneSends, startCalls, panics,
                 splitVars, interval, concurrency, sent, deletes, input, open, age,
                 batches, output, workers, emitted, seals, calls>>

CancelStart == CancelContext(FALSE)

CancelOpen == CancelContext(TRUE)

\* Start with a positive DeleteInterval: Delete is one goroutine.
InitDelete ==
  /\ New("delete", MaxBatchSize, 1)
  /\ SplitIdle
  /\ \E i \in 1 .. MaxInterval : StartDelete(i, 1)

\* DeleteMessageBatchWithContext returns a transport error or at most one failure.
DeleteReturnOne(w) == DeleteReturn(w) /\ Len(workers'[w].errs) <= 1

NextDelete ==
  \/ SendDelete
  \/ BatchDeletesCopy
  \/ NewBatchAdd
  \/ NewBatchTick
  \/ NewBatchTimeout
  \/ BatchDeletesEntries
  \/ \E w \in WorkerIds : DeleteReceive(w)
  \/ \E w \in WorkerIds : DeleteReturnOne(w)
  \/ \E w \in WorkerIds : DeleteSendErr(w)
  \/ \E w \in WorkerIds : DeleteDone(w)
  \/ CancelStart

SpecDelete == InitDelete /\ [][NextDelete]_vars

\* DeleteMessageBatchWithContext returns an output with nothing in Failed.
DeleteSucceeds(w) == DeleteReturn(w) /\ workers'[w].pc = "select"

\* The delete path while the context is not cancelled and every call succeeds.
NextDeleted ==
  \/ SendDelete
  \/ BatchDeletesCopy
  \/ NewBatchAdd
  \/ NewBatchTick
  \/ NewBatchTimeout
  \/ BatchDeletesEntries
  \/ DeleteReceive(1)
  \/ DeleteSucceeds(1)

\* The goroutines of BatchDeletes, the batcher and Delete are scheduled, the clock
\* goes on and DeleteMessageBatch returns. Nothing is assumed about the
\* application sending on d.deletes.
DeleteFairness ==
  /\ WF_vars(BatchDeletesCopy)
  /\ WF_vars(NewBatchAdd)
  /\ WF_vars(NewBatchTick)
  /\ WF_vars(NewBatchTimeout)
  /\ WF_vars(BatchDeletesEntries)
  /\ WF_vars(DeleteReceive(1))
  /\ WF_vars(DeleteSucceeds(1))

FairDelete == InitDelete /\ [][NextDeleted]_vars /\ DeleteFairness

\* The application sends few messages on the delete channel.
SendFew == SendDelete /\ sent < MaxFewAcks

\* Start with a positive Delete.Interval and Delete.Concurrency goroutines of
\* Delete.
InitWorkers ==
  /\ New("delete", MaxBatchSize, 1)
  /\ SplitIdle
  /\ \E i \in 1 .. MaxInterval, k \in 1 .. MaxConcurrency : StartDelete(i, k)

NextWorkers ==
  \/ SendFew
  \/ BatchDeletesCopy
  \/ NewBatchAdd
  \/ NewBatchTick
  \/ NewBatchTimeout
  \/ BatchDeletesEntries
  \/ \E w \in WorkerIds : DeleteReceive(w)
  \/ \E w \in WorkerIds : DeleteReturn(w)
  \/ \E w \in WorkerIds : DeleteSendErr(w)
  \/ \E w \in WorkerIds : DeleteDone(w)
  \/ CancelOpen

SpecWorkers == InitWorkers /\ [][NextWorkers]_vars

\* The delete path with Delete.Concurrency goroutines while the context is not
\* cancelled.
NextWorking ==
  \/ SendFew
  \/ BatchDeletesCopy
  \/ NewBatchAdd
  \/ NewBatchTick
  \/ NewBatchTimeout
  \/ BatchDeletesEntries
  \/ \E w \in WorkerIds : DeleteReceive(w)
  \/ \E w \in WorkerIds : DeleteReturn(w)
  \/ \E w \in WorkerIds : DeleteSendErr(w)

\* The goroutines are scheduled, the clock goes on, DeleteMessageBatch returns and
\* the application reads the error stream.
WorkersFairness ==
  /\ WF_vars(BatchDeletesCopy)
  /\ WF_vars(NewBatchAdd)
  /\ WF_vars(NewBatchTick)
  /\ WF_vars(NewBatchTimeout)
  /\ WF_vars(BatchDeletesEntries)
  /\ \A w \in WorkerIds :
       /\ WF_vars(DeleteReceive(w))
       /\ WF_vars(DeleteReturn(w))
       /\ WF_vars(DeleteSendErr(w))

FairWorkers == InitWorkers /\ [][NextWorking]_vars /\ WorkersFairness

\* time.Duration(1) * time.Second, in ticks of the clock.
DefaultInterval == 1

\* DeleteOptions.Defaults: a zero Interval becomes one second, a zero Concurrency
\* becomes 1; any other value is left as it is.
DefaultsInterval(i) == IF i = 0 THEN DefaultInterval ELSE i

DefaultsConcurrency(c) == IF c = 0 THEN 1 ELSE c

\* Start on any Options.Delete: options.Defaults(), then Delete launches one
\* goroutine per i with 0 <= i < Delete.Concurrency.
InitOptions ==
  /\ New("delete", MaxBatchSize, 1)
  /\ SplitIdle
  /\ \E i \in 0 .. MaxInterval, c \in (0 - MaxConcurrency) .. MaxConcurrency :
       StartDelete(DefaultsInterval(i), DefaultsConcurrency(c))

SpecOptions == InitOptions /\ [][NextWorkers]_vars

\* The goroutines are scheduled, the clock goes on and DeleteMessageBatch
\* returns. Nothing is assumed about the application: it may stop reading the
\* error stream at any moment.
CancelFairness ==
  /\ WF_vars(BatchDeletesCopy)
  /\ WF_vars(NewBatchAdd)
  /\ WF_vars(NewBatchTick)
  /\ WF_vars(NewBatchTimeout)
  /\ WF_vars(BatchDeletesEntries)
  /\ \A w \in WorkerIds :
       /\ WF_vars(DeleteReceive(w))
       /\ WF_vars(DeleteReturn(w))
       /\ WF_vars(DeleteDone(w))

FairCancel == SpecWorkers /\ CancelFairness

\* The same with an application that keeps reading the error stream.
FairCancelRead == FairCancel /\ \A w \in WorkerIds : WF_vars(DeleteSendErr(w))

\* ------------------------------------------------------------------ claims

RECURSIVE Sum(_)
Sum(s) == IF s = <<>> THEN 0 ELSE Head(s) + Sum(Tail(s))

InFlight == {i \in DOMAIN tasks : tasks[i].pc = "inflight"}
Returned(i) == tasks[i].pc \in {"send", "done"}

\* C1: for count >= 0 and MaxCount > 0, Requests(count) has ceil(count/MaxCount)
\* requests (n = 0 for count = 0, else MaxCount*(n-1) < count <= MaxCount*n), they
\* sum to count, each is > 0 and <= MaxCount, all but the last equal MaxCount and
\* the last is count - MaxCount*(n-1); (25,10) -> [10,10,5], (20,10) -> [10,10],
\* (5,10) -> [5].
C1_RequestsSplit ==
  splitPc = "done" =>
    LET c == splitIn.count
        m == splitIn.max
        n == Len(splitOut)
    IN /\ IF c = 0 THEN n = 0 ELSE n >= 1 /\ m * (n - 1) < c /\ c <= m * n
       /\ Sum(splitOut) = c
       /\ \A i \in 1 .. n : 0 < splitOut[i] /\ splitOut[i] <= m
       /\ \A i \in 1 .. n - 1 : splitOut[i] = m
       /\ n >= 1 => splitOut[n] = c - m * (n - 1)
       /\ (c = 25 /\ m = 10) => splitOut = <<10, 10, 5>>
       /\ (c = 20 /\ m = 10) => splitOut = <<10, 10>>
       /\ (c = 5 /\ m = 10) => splitOut = <<5>>

C1_Witness ==
  splitPc = "done" /\ splitIn = [count |-> 25, max |-> 10] /\ splitOut = <<10, 10, 5>>

\* C2: a Run whose CountFunc returned 0 launches no goroutine, so DoFunc is not
\* invoked in it, and its wg.Wait() does not block: Run can return at once.
C2_ZeroDemandNoCalls ==
  \A l \in LoopIds :
    (loops[l].pc = "wait" /\ count = 0) =>
      /\ tasks = <<>>
      /\ InFlight = {}
      /\ ENABLED RunWait(l)

C2_Witness ==
  \E l \in LoopIds : loops[l].pc = "wait" /\ count = 0 /\ tasks = <<>>

\* C3: under Dispatch.Receive, MaxCount is MaxBatchSize (10) and every request
\* handed to a goroutine of Run, hence every request passed to DoFunc and every
\* MaxNumberOfMessages, is an integer c with 0 < c <= MaxCount, whatever the
\* ReceiveBufferSize.
C3_RequestInRange ==
  /\ MaxCount = MaxBatchSize
  /\ \A i \in DOMAIN tasks :
       /\ tasks[i].req \in Int
       /\ 0 < tasks[i].req
       /\ tasks[i].req <= MaxCount

C3_Witness ==
  /\ capacity = MaxBatchSize + 2
  /\ Len(tasks) = 2
  /\ tasks[1].pc = "inflight" /\ tasks[1].req = MaxBatchSize
  /\ tasks[2].pc = "inflight" /\ tasks[2].req = 2

\* C4: for each request executed by Do, once DoFunc has returned: without an error,
\* the items received from the results channel for that request are a prefix of
\* the items DoFunc returned, in its order, all of them once Do is finished, and no
\* error was received for it; with an error, no item of the request was received
\* and at most one error, exactly one once Do is finished.
C4_DoForwards ==
  \A i \in DOMAIN tasks :
    Returned(i) =>
      IF tasks[i].res.err
        THEN /\ got[i] = <<>>
             /\ errGot[i] <= 1
             /\ tasks[i].pc = "done" => errGot[i] = 1
        ELSE /\ IsPrefix(got[i], tasks[i].res.items)
             /\ errGot[i] = 0
             /\ tasks[i].pc = "done" => got[i] = tasks[i].res.items

C4_Witness ==
  \E i, j \in DOMAIN tasks :
    /\ tasks[i].pc = "done" /\ ~tasks[i].res.err
    /\ Len(tasks[i].res.items) = 2 /\ got[i] = tasks[i].res.items
    /\ tasks[j].pc = "done" /\ tasks[j].res.err
    /\ tasks[j].res.items # <<>> /\ errGot[j] = 1 /\ got[j] = <<>>

\* C5: in a Run with two requests [a, b] where DoFunc failed for a and returned
\* the two items [x, y] for b, with both channels being read: no item of a, no
\* second error and no error of b is ever received and the items of b arrive in
\* order; and whichever goroutine is ahead, the Run reaches the state where
\* exactly x and y were received from the results channel and exactly one error
\* from the errors channel.
C5_Scenario ==
  /\ Len(tasks) = 2
  /\ Returned(1) /\ tasks[1].res.err
  /\ Returned(2) /\ ~tasks[2].res.err /\ Len(tasks[2].res.items) = 2

C5_Delivered ==
  /\ C5_Scenario
  /\ tasks[1].pc = "done" /\ tasks[2].pc = "done"
  /\ got = <<<<>>, tasks[2].res.items>>
  /\ errGot = <<1, 0>>

C5_FanOutTwoChunks ==
  /\ [](C5_Scenario =>
          /\ got[1] = <<>>
          /\ IsPrefix(got[2], tasks[2].res.items)
          /\ errGot[1] <= 1
          /\ errGot[2] = 0)
  /\ (C5_Scenario ~> C5_Delivered)

C5_Witness == C5_Delivered /\ got[2] = <<<<2, 1>>, <<2, 2>>>>

\* C6: no goroutine of a Run is still running when the Run has returned: outside
\* wg.Wait() there is no goroutine left, so the goroutines of the next Run never
\* run beside those of an earlier one.
C6_RunJoins ==
  /\ \A i \in DOMAIN tasks : ~tasks[i].stale
  /\ (\A l \in LoopIds : loops[l].pc # "wait") => tasks = <<>>

C6_Witness ==
  \E l \in LoopIds :
    /\ loops[l].pc = "wait"
    /\ Len(tasks) = 2
    /\ \A i \in DOMAIN tasks : tasks[i].pc = "done"
    /\ ENABLED RunWait(l)

\* C7: under Dispatch.Receive the number n of DoFunc (ReceiveMessage) calls in
\* flight is at most ceil(count/MaxCount) for the count read in the current Run
\* (MaxCount*(n-1) < count when n > 0), and at most
\* ceil(ReceiveBufferSize/MaxBatchSize).
C7_InFlightBounded ==
  LET n == Cardinality(InFlight) IN
    /\ n > 0 => MaxCount * (n - 1) < count
    /\ n > 0 => MaxBatchSize * (n - 1) < capacity
    /\ count <= capacity

C7_Witness == Cardinality(InFlight) = 2 /\ capacity = MaxBatchSize + 1

\* C8 as claimed: no DoFunc invocation is made after the context passed to Start
\* was cancelled.
C8_NoCallAfterCancel == \A i \in DOMAIN tasks : ~tasks[i].late

\* C8 amended: once the context is cancelled the select never takes its default
\* branch, so no Run is entered after the cancellation; the DoFunc invocations made
\* after the cancellation are those of the goroutines of the one Run the loop had
\* already chosen before it, while the loop is inside that Run: at most
\* ceil(count/MaxCount) of them.
C8_NoRunAfterCancel ==
  /\ \A l \in LoopIds : ~loops[l].late
  /\ \A i \in DOMAIN tasks :
       tasks[i].late =>
         /\ ~tasks[i].stale
         /\ loops[tasks[i].owner].pc = "wait"
         /\ loops[tasks[i].owner].ctx \in cancelled
  /\ LET n == Cardinality({i \in DOMAIN tasks : tasks[i].late})
     IN n > 0 => MaxCount * (n - 1) < count

C8_Witness ==
  \E i \in DOMAIN tasks : tasks[i].late /\ tasks[i].pc = "inflight"

LoopsReturned == {l \in LoopIds : loops[l].pc = "returned"}

\* C9 as claimed: over the lifetime of a Receive at most one send on r.done
\* completes.
C9_DoneAtMostOnce == doneSends <= 1

\* C9 amended: every loop goroutine sends on r.done at most once, and only after
\* it has seen its own context cancelled; a Receive notifies once per successful
\* Start at most, so one that was started once notifies at most once.
C9_DoneOncePerLoop ==
  /\ doneSends = Cardinality(LoopsReturned)
  /\ doneSends <= Cardinality(Launched)
  /\ \A l \in LoopIds :
       loops[l].pc \in {"sendDone", "returned"} => loops[l].ctx \in cancelled
  /\ done <= doneSends
  /\ Cardinality(Launched) <= 1 => doneSends <= 1

C9_Witness == doneSends = 2 /\ Cardinality(Launched) = 2

Observed(l) == loops[l].pc \in {"sendDone", "returned"}

\* C10: a loop that has taken the ctx.Done() branch stays stopped: it never
\* selects again and enters no Run (no CountFunc call), and no goroutine that
\* could call DoFunc belongs to it. Goroutines exist only while their loop is
\* inside wg.Wait(): cancelling the context removes none of them, and no loop
\* takes the ctx.Done() branch while a goroutine of its Run is unfinished.
C10_StoppedStaysStopped ==
  /\ [](\A i \in DOMAIN tasks : loops[tasks[i].owner].pc = "wait")
  /\ [][\A l \in LoopIds : Observed(l) => Observed(l)']_vars
  /\ [][cancelled' # cancelled => tasks' = tasks /\ loops' = loops]_vars
  /\ [][\A l \in LoopIds :
          (~Observed(l) /\ Observed(l)') => (tasks = <<>> /\ loops[l].ctx \in cancelled)]_vars

C10_Witness ==
  \E l \in LoopIds :
    /\ loops[l].pc = "wait"
    /\ loops[l].ctx \in cancelled
    /\ \E i \in DOMAIN tasks : tasks[i].pc = "send" /\ ~tasks[i].late

\* The loop goroutines that have not taken the ctx.Done() branch.
Looping == {l \in Launched : ~Observed(l)}

\* C11: a Start call on a Receive whose loop is started and has not stopped
\* panics and launches no loop goroutine: every Start call either panics or
\* launches a loop, one made while r.started is set panics, leaves the loops and
\* r.started as they are, and is counted as a panic, never passed over.
C11_DoubleStartPanics ==
  /\ [](panics + Cardinality(Launched) = startCalls)
  /\ [][(startCalls' # startCalls /\ started) =>
          /\ panics' = panics + 1
          /\ loops' = loops
          /\ started']_vars

C11_Witness ==
  panics = 1 /\ started /\ Cardinality(Launched) = 1 /\ loops[1].pc = "wait"

C13_NewRejectsNonPositive ==
  /\ (wiring = "options" /\ MaxCount <= 0) => ~ENABLED (CallNew /\ wiring' = "plain")
  /\ wiring = "plain" => MaxCount > 0
  /\ MaxCount <= 0 => (startCalls = 0 /\ Launched = {} /\ tasks = <<>>)

C13_Witness == wiring = "panicked" /\ MaxCount = 0

\* A Run in which a request has failed.
FailedRun ==
  /\ loops[1].pc = "wait"
  /\ \E i \in DOMAIN tasks : Returned(i) /\ tasks[i].res.err

\* C14: a failed ReceiveMessage call is reported and does not stop the loop. When
\* every goroutine of a Run is finished, one error was received from r.errors for
\* each request that failed and all the messages of each request that succeeded
\* were received from r.results; and a Run with a failed request always leads to
\* the loop entering its next Run, unless the context is cancelled.
C14_ErrorDoesNotStopLoop ==
  /\ []((loops[1].pc = "wait" /\ WaitGroupDone) =>
          \A i \in DOMAIN tasks :
            IF tasks[i].res.err
              THEN errGot[i] = 1 /\ got[i] = <<>>
              ELSE errGot[i] = 0 /\ got[i] = tasks[i].res.items)
  /\ (FailedRun ~> (loops[1].pc = "run" \/ 1 \in cancelled))

C14_Witness ==
  /\ FailedRun
  /\ 1 \notin cancelled
  /\ Len(tasks) = 2
  /\ tasks[1].res.err /\ errGot[1] = 1
  /\ tasks[2].pc = "done" /\ got[2] = Messages(2)
  /\ ENABLED RunWait(1)

\* The messages asked of SQS by the ReceiveMessage calls in flight.
Requested == Sum([i \in DOMAIN tasks |-> IF tasks[i].pc = "inflight" THEN tasks[i].req ELSE 0])

\* The messages SQS returned that the application has not read from d.receives:
\* those a Do still has to send, the one the forwarding goroutine holds and those
\* in the buffer of d.receives.
Unread == Sum([i \in DOMAIN tasks |-> Len(tasks[i].out)]) + Len(fwd) + Len(receives)

\* C15: the messages requested from SQS or returned by it and not yet read by the
\* application never exceed ReceiveBufferSize.
C15_FetchWithinBuffer == Requested + Unread <= capacity

\* The requests of the goroutines of the current Run.
RunRequests == [i \in DOMAIN tasks |-> tasks[i].req]

\* A Run whose CountFunc found the buffer of d.receives empty.
FullRun == loops[1].pc = "wait" /\ count = ExampleCapacity

FullRunDelivered ==
  /\ FullRun
  /\ \A i \in DOMAIN tasks : tasks[i].pc = "done" /\ got[i] = Messages(tasks[i].req)
  /\ Sum([i \in DOMAIN got |-> Len(got[i])]) = ExampleCapacity

\* C16: with ReceiveBufferSize 25, MaxCount 10 and ReceiveMessage returning as
\* many messages as asked for, a Run that starts with the buffer empty reads a
\* count of 25 and launches exactly 3 goroutines with the requests 10, 10 and 5,
\* one ReceiveMessage call each; and such a Run always leads to all 25 returned
\* messages having been received from r.results.
C16_FullCapacityRun ==
  /\ [][(loops[1].pc = "run" /\ loops'[1].pc = "wait" /\ receives = <<>>) =>
          (count' = ExampleCapacity /\ RunRequests' = <<10, 10, 5>>)]_vars
  /\ [](FullRun => (RunRequests = <<10, 10, 5>> /\ MaxCount = 10))
  /\ (FullRun ~> FullRunDelivered)

C16_Witness == FullRunDelivered /\ Len(tasks) = 3 /\ Len(got[3]) = 5

\* The receipt handles of entries, in their order.
Handles(entries) == [p \in 1 .. Len(entries) |-> entries[p].ReceiptHandle]

\* The batches between the batcher and SQS, the oldest first: the entries of the
\* calls in flight, the entries BatchDeletes holds and the batch being emitted.
InTransit ==
  LET called == {w \in WorkerIds : workers[w].pc = "call"}
      call == IF called = {} THEN <<>>
              ELSE <<Handles(workers[CHOOSE w \in called : TRUE].entries)>>
      held == IF output = <<>> THEN <<>> ELSE <<Handles(output[1])>>
  IN call \o held \o batches

RECURSIVE Concat(_)
Concat(ss) == IF ss = <<>> THEN <<>> ELSE Head(ss) \o Concat(Tail(ss))

IsSuffix(s, t) ==
  Len(s) <= Len(t) /\ \A k \in 1 .. Len(s) : s[k] = t[Len(t) - Len(s) + k]

\* C17: every batch on its way to a DeleteMessageBatch call, and the Entries of
\* every call, has at least 1 and at most MaxBatchSize entries. A sealed batch is
\* neither split nor merged: BatchDeletes builds the entries of one batch from
\* that batch alone, the consumer passes exactly the entries it received to one
\* call, and the batches in transit are the last sealed batches, each sealed batch
\* accounting for one call.
C17_BatchSizeWithinLimit ==
  /\ [](\A k \in 1 .. Len(InTransit) :
          1 <= Len(InTransit[k]) /\ Len(InTransit[k]) <= MaxBatchSize)
  /\ [](IsSuffix(Concat(InTransit), emitted))
  /\ [](\A w \in WorkerIds : Len(workers[w].entries) <= MaxBatchSize)
  /\ [][(batches # <<>> /\ batches' = <<>>) =>
          (output = <<>> /\ Handles(output'[1]) = batches[1])]_vars
  /\ [][\A w \in WorkerIds :
          (workers[w].pc = "select" /\ workers'[w].pc = "call") =>
            (workers'[w].entries = output[1] /\ output' = <<>> /\ calls' = calls + 1)]_vars
  /\ [][calls' # calls => (calls' = calls + 1 /\ InTransit' = InTransit)]_vars

C17_Witness ==
  /\ workers[1].pc = "call"
  /\ Len(workers[1].entries) = MaxBatchSize
  /\ output # <<>> /\ Len(output[1]) = 1

\* The first n receipt handles in the order in which they were sent.
Acks(n) == [k \in 1 .. n |-> k]

\* C18: the size trigger. The open batch never holds MaxBatchSize messages: the
\* step in which it receives its MaxBatchSize-th message seals it and emits
\* exactly those messages, whatever the timer shows. When MaxBatchSize messages
\* have reached the batcher and no batch was sealed by the timer, exactly one
\* batch, of those messages, has been sealed; and the timer seals nothing while
\* the open batch is empty.
C18_SizeTrigger ==
  /\ [](Len(open) < MaxBatchSize)
  /\ [][(Len(open) = MaxBatchSize - 1 /\ input # <<>> /\ input' = <<>>) =>
          /\ open' = <<>>
          /\ batches' = <<Append(open, input[1])>>
          /\ seals' = seals + 1
          /\ emitted' = emitted \o Append(open, input[1])]_vars
  /\ []((Len(emitted) + Len(open) = MaxBatchSize /\ Len(emitted) = MaxBatchSize * seals) =>
          (seals = 1 /\ open = <<>> /\ emitted = Acks(MaxBatchSize)))
  /\ [][open = <<>> => seals' = seals]_vars

C18_Witness ==
  /\ seals = 1
  /\ batches = <<Acks(MaxBatchSize)>>
  /\ open = <<>>
  /\ age = 0
  /\ sent = MaxBatchSize

\* C19: the time trigger. A non-empty open batch is never older than the
\* interval and is always sealed in the end; the timer seals it, as it is, exactly
\* when the interval has elapsed since its first message, with fewer than
\* MaxBatchSize messages. After a single message was sent on the delete channel
\* and while no other is, there is at most one DeleteMessageBatch call, its
\* entries are that message alone (Id "0"), and while the context is not
\* cancelled the call is made.
C19_TimeTrigger ==
  /\ [](open # <<>> => (age <= interval /\ batches = <<>>))
  /\ [][(open # <<>> /\ seals' # seals /\ input' = input) =>
          /\ age = interval
          /\ Len(open) < MaxBatchSize
          /\ batches' = <<open>>
          /\ open' = <<>>]_vars
  /\ (open # <<>> ~> open = <<>>)
  /\ [](sent = 1 =>
          /\ calls <= 1
          /\ \A w \in WorkerIds :
               workers[w].pc = "call" =>
                 workers[w].entries = <<[Id |-> <<"0">>, ReceiptHandle |-> 1]>>)
  /\ (sent = 1 ~> (calls = 1 \/ sent > 1))

C19_Witness ==
  /\ sent = 1
  /\ calls = 1
  /\ workers[1].pc = "call"
  /\ Len(workers[1].entries) = 1
  /\ 1 \notin cancelled

\* C20: while the context is not cancelled batching loses, duplicates and
\* reorders nothing. The messages of the sealed batches, in the order of sealing,
\* are always a prefix of the messages sent on the delete channel, in the order of
\* sending; the messages not yet sealed are, in that order, in the open batch,
\* with BatchDeletes' goroutine or in the buffer of d.deletes; and whenever a
\* message sent is not yet in a sealed batch, the sealed batches come to hold
\* exactly the messages sent (the application sends finitely many), each once.
C20_NoAckLost ==
  /\ [](IsPrefix(emitted, Acks(sent)))
  /\ [](emitted \o open \o input \o deletes = Acks(sent))
  /\ (Len(emitted) < sent ~> emitted = Acks(sent))

C20_Witness ==
  /\ sent = MaxBatchSize + 1
  /\ emitted = Acks(sent)
  /\ seals = 2

\* The receipt handles of the entries, as a set.
HandleSet(entries) == {entries[p].ReceiptHandle : p \in 1 .. Len(entries)}

\* Every goroutine of Delete has returned.
AllReturned == \A w \in WorkerIds : workers[w].pc \in {"none", "returned"}

Busy == {w \in WorkerIds : workers[w].pc \in {"call", "send"}}

\* C22: with Delete.Concurrency goroutines and no cancellation, no two
\* goroutines hold entries with a common message; every sealed batch accounts for
\* exactly one DeleteMessageBatch call or is still on its way to one; a call is
\* made only in the step in which one goroutine takes the entries from
\* BatchDeletes, with exactly those entries, and a goroutine that holds entries
\* makes no further call with them; and, the application reading the error
\* stream, the n-th sealed batch is submitted in the end (the n-th call is made).
C22_OneCallPerBatch ==
  /\ [](\A v \in Busy : \A w \in Busy \ {v} :
          HandleSet(workers[v].entries) \cap HandleSet(workers[w].entries) = {})
  /\ [](calls + Len(output) + Len(batches) = seals)
  /\ [][calls' # calls =>
          /\ calls' = calls + 1
          /\ output # <<>>
          /\ output' = <<>>
          /\ \E w \in WorkerIds \ Busy :
               /\ workers'[w] = [pc |-> "call", entries |-> output[1], errs |-> <<>>]
               /\ \A v \in WorkerIds \ {w} : workers'[v] = workers[v]]_vars
  /\ [][\A w \in Busy : workers'[w].pc = "call" => workers[w].pc = "call"]_vars
  /\ \A n \in 1 .. MaxFewAcks : (seals >= n ~> calls >= n)

\* Two goroutines of Delete are in a call at once, each with its own batch.
C22_Witness ==
  /\ 1 \notin cancelled
  /\ concurrency = 2
  /\ workers[1].pc = "call"
  /\ workers[2].pc = "call"
  /\ calls = 2
  /\ seals = 2

\* The DeleteMessageBatch calls in flight.
Calling == {w \in WorkerIds : workers[w].pc = "call"}

\* C23: at most Delete.Concurrency DeleteMessageBatch calls are in flight, made
\* by the Delete.Concurrency goroutines Start launched. With one goroutine the
\* batches are processed one at a time: at most one batch is held, and a call is
\* made only when the goroutine holds no batch, the previous call having
\* returned and all its errors having been handed off.
C23_CallsWithinConcurrency ==
  /\ [](Cardinality(Calling) <= concurrency)
  /\ [](Cardinality({w \in WorkerIds : workers[w].pc # "none"}) = concurrency)
  /\ [](concurrency = 1 => Cardinality(Busy) <= 1)
  /\ [][(concurrency = 1 /\ calls' # calls) =>
          (Busy = {} /\ \A w \in WorkerIds : workers[w].errs = <<>>)]_vars

\* The one goroutine is handing off the errors of its call while the next batch
\* waits with BatchDeletes.
C23_Witness ==
  /\ concurrency = 1
  /\ workers[1].pc = "send"
  /\ output # <<>>
  /\ calls = 1
  /\ seals = 2

\* C24 as stated: every BatchDeleteError a goroutine of Delete is about to send
\* carries the ReceiptHandle of the entry of its batch whose Id is the Id of the
\* failure.
C24_ErrorIdentifiesItem ==
  \A w \in WorkerIds :
    workers[w].pc = "send" =>
      \A q \in 1 .. Len(workers[w].errs) :
        workers[w].errs[q].kind = "batch" =>
          \E p \in 1 .. Len(workers[w].entries) :
            /\ workers[w].entries[p].Id = workers[w].errs[q].Id
            /\ workers[w].entries[p].ReceiptHandle = workers[w].errs[q].ReceiptHandle

\* A goroutine of Delete in its send loop sends one error per step and is back
\* at its select when the last one is sent.
SendsOneByOne(w) ==
  workers[w].pc = "send" =>
    \/ workers'[w] = workers[w]
    \/ /\ Len(workers[w].errs) > 1
       /\ workers'[w] = [workers[w] EXCEPT !.errs = Tail(@)]
    \/ /\ Len(workers[w].errs) = 1
       /\ workers'[w] = [NoWorker EXCEPT !.pc = "select"]

\* C25: whatever output a DeleteMessageBatch call in flight returns without a
\* transport error, the errors Delete has to send for it are one BatchDeleteError
\* per entry of output.Failed, with the Id of that failure, and none when Failed
\* is empty; the goroutine then sends exactly these errors, one at a time, and
\* goes back to its select.
C25_OneErrorPerFailure ==
  /\ [](\A w \in Calling :
          \A out \in DeleteOutputs(workers[w].entries) :
            ~out.err =>
              LET errs == DeleteErrors(workers[w].entries, out) IN
                /\ Len(errs) = Len(out.failed)
                /\ \A q \in 1 .. Len(errs) :
                     errs[q].kind = "batch" /\ errs[q].Id = out.failed[q])
  /\ [][\A w \in Calling :
          \/ workers'[w] = workers[w]
          \/ \E out \in DeleteOutputs(workers[w].entries) :
               LET errs == DeleteErrors(workers[w].entries, out) IN
                 workers'[w] = IF errs = <<>>
                                 THEN [NoWorker EXCEPT !.pc = "select"]
                                 ELSE [workers[w] EXCEPT !.pc = "send", !.errs = errs]]_vars
  /\ [][\A w \in WorkerIds : SendsOneByOne(w)]_vars

\* Two of the three entries of a batch failed: two errors are to be sent.
C25_Witness ==
  \E w \in WorkerIds :
    /\ workers[w].pc = "send"
    /\ Len(workers[w].entries) = 3
    /\ Len(workers[w].errs) = 2
    /\ \A q \in 1 .. 2 : workers[w].errs[q].kind = "batch"

\* The error of the call, alone.
CallError == <<[kind |-> "call"]>>

\* C26: when a DeleteMessageBatch call fails at transport level the errors Delete
\* has to send are the error of the call and nothing else, no BatchDeleteError;
\* the goroutine sends it, makes no second call with the batch and is back at its
\* select, and (the application reading the error stream) a later batch that is
\* sealed is submitted.
C26_TransportErrorOnce ==
  /\ [](\A w \in Calling :
          DeleteErrors(workers[w].entries, [err |-> TRUE, failed |-> <<>>]) = CallError)
  /\ [](\A w \in WorkerIds :
          (workers[w].pc = "send" /\ \E q \in 1 .. Len(workers[w].errs) :
                                       workers[w].errs[q].kind = "call")
            => workers[w].errs = CallError)
  /\ [][\A w \in WorkerIds :
          (workers[w].pc = "send" /\ workers[w].errs = CallError /\ workers'[w] # workers[w])
            => (workers'[w] = [NoWorker EXCEPT !.pc = "select"] /\ calls' = calls)]_vars
  /\ \A n \in 1 .. MaxFewAcks :
       ((concurrency = 1 /\ workers[1].pc = "send" /\ workers[1].errs = CallError
           /\ calls = n /\ seals > n) ~> calls > n)

\* The one goroutine is about to send the error of its call while the next batch
\* waits.
C26_Witness ==
  /\ concurrency = 1
  /\ workers[1].pc = "send"
  /\ workers[1].errs = CallError
  /\ calls = 1
  /\ seals = 2
  /\ output # <<>>

\* The goroutines of Delete that Start launched.
Started == {w \in WorkerIds : workers[w].pc # "none"}

\* C27 as stated: Start launches at least one goroutine of Delete, as many as
\* Delete.Concurrency says after Defaults (1 for an unspecified Concurrency).
C27_AtLeastOneWorker ==
  /\ Cardinality(Started) >= 1
  /\ Cardinality(Started) = concurrency

\* C28: for every count >= 0 and every maximum m > 0, Pages(count) of a Pager
\* whose MaxPageSize() is m is the sequence of sizes Requests(count) returns on a
\* Receive whose MaxCount is m.
C28_PagesIsRequests ==
  /\ pagesPc = "done" => pagesOut = Requests(splitIn.count, splitIn.max)
  /\ (pagesPc = "done" /\ splitPc = "done") => pagesOut = splitOut

C28_Witness ==
  /\ pagesPc = "done"
  /\ splitPc = "done"
  /\ splitIn = [count |-> 25, max |-> 10]
  /\ pagesOut = <<10, 10, 5>>
  /\ splitOut = <<10, 10, 5>>

\* C29 as stated: whenever a completion notification is received from r.done,
\* r.started is false.
C29_StartedClearAtReceipt == [][done' < done => ~started]_vars

\* C29, amended: a loop clears r.started in the step in which it takes the
\* ctx.Done() branch, and only a loop that has done so sends on r.done, so the flag
\* is cleared before the notification is sent. It is false when the notification
\* is received unless Start has launched another loop since: on a Receive
\* started once it is false at every receipt, and where it is set at a receipt a
\* loop launched later is running.
C29_ClearedBeforeNotification ==
  /\ [][\A l \in LoopIds :
          (loops[l].pc # "sendDone" /\ loops'[l].pc = "sendDone") => ~started']_vars
  /\ [][doneSends' # doneSends =>
          \E l \in LoopIds : loops[l].pc = "sendDone" /\ loops'[l].pc = "returned"]_vars
  /\ [][(done' < done /\ Cardinality(Launched) = 1) => ~started]_vars
  /\ [][(done' < done /\ started) =>
          (Looping # {} /\ Cardinality(Launched) > doneSends)]_vars

\* The notification of the cancelled loop has been sent and received, and the
\* flag is clear.
C29_Witness ==
  /\ doneSends = 1
  /\ done = 0
  /\ loops[1].pc = "returned"
  /\ Cardinality(Launched) = 1
  /\ ~started

\* The number a string of decimal digits denotes.
RECURSIVE Atoi(_)
Atoi(str) ==
  IF str = <<>> THEN 0
  ELSE 10 * Atoi(SubSeq(str, 1, Len(str) - 1))
         + (CHOOSE k \in 0 .. 9 : Digits[k + 1] = str[Len(str)])

\* The entries are those of the batch b: as many as its messages, the entry at
\* Go's index i with the decimal string of i (no leading zero) as its Id and the
\* receipt handle of the i-th message; the Ids are pairwise distinct.
EntriesOf(e, b) ==
  /\ Len(e) = Len(b)
  /\ \A p \in 1 .. Len(e) :
       /\ e[p].Id # <<>>
       /\ \A k \in 1 .. Len(e[p].Id) : \E d \in 1 .. 10 : e[p].Id[k] = Digits[d]
       /\ (Len(e[p].Id) > 1 => e[p].Id[1] # "0")
       /\ Atoi(e[p].Id) = p - 1
       /\ e[p].ReceiptHandle = b[p]
  /\ \A p \in 1 .. Len(e) : \A q \in 1 .. Len(e) : e[p].Id = e[q].Id => p = q

\* C30: the entries BatchDeletes builds from a sealed batch of n messages are n
\* entries, the i-th (from 0) with Id the decimal string of i and the receipt
\* handle of the i-th message of the batch, so in the order of the batch and with
\* pairwise distinct Ids 0 .. n-1; the entries of every call are of that form.
C30_EntriesOfBatch ==
  /\ [][(batches # <<>> /\ output' # output /\ output' # <<>>) =>
          EntriesOf(output'[1], batches[1])]_vars
  /\ [](\A w \in Busy : EntriesOf(workers[w].entries, Handles(workers[w].entries)))

\* BatchDeletes holds the entries of a full batch: the Ids are "0" to "9".
C30_Witness ==
  /\ output # <<>>
  /\ Len(output[1]) = MaxBatchSize
  /\ output[1][1].Id = <<"0">>
  /\ output[1][MaxBatchSize].Id = <<"9">>
  /\ output[1][MaxBatchSize].ReceiptHandle = MaxBatchSize

\* C31: ReceiveMessage returning without error and with at most the messages
\* asked for, and whether or not the application reads d.receives: the goroutines
\* of a Run all finish, so none stays blocked on r.results, the Run returns, and
\* once the context is cancelled the loop takes the ctx.Done() branch and sends
\* the completion notification.
C31_DoneDespiteStalledReader ==
  /\ (tasks # <<>> ~> tasks = <<>>)
  /\ ((1 \in cancelled) ~> (loops[1].pc = "returned" /\ doneSends = 1))

\* The notification was sent while the buffer of d.receives is full and the
\* forwarding goroutine holds one more message.
C31_Witness ==
  /\ 1 \in cancelled
  /\ doneSends = 1
  /\ loops[1].pc = "returned"
  /\ Len(receives) = capacity
  /\ fwd # <<>>

\* C35: ReceiveMessage returning at most the messages asked for, the messages
\* SQS returned that the application has not read (those a Do still has to send,
\* the one the forwarding goroutine holds, those in the buffer of d.receives),
\* are at most ReceiveBufferSize + 1, even together with the messages asked of
\* SQS by the calls in flight.
C35_UnreadWithinBufferPlusOne ==
  /\ Unread <= capacity + 1
  /\ Requested + Unread <= capacity + 1

\* The buffer is full and one more message is on its way to it.
C35_Witness ==
  /\ Unread = capacity + 1
  /\ Len(receives) = capacity
  /\ capacity > 1

\* The messages the goroutines of Do still have to send on r.results.
Unsent == Sum([i \in DOMAIN tasks |-> Len(tasks[i].out)])

\* C32: the messages on their way from SQS to the application are neither lost
\* nor duplicated. Their number grows only when a ReceiveMessage call returns, by
\* the messages of its output, and shrinks only when the application reads the
\* head of d.receives, by one; the forwarding goroutine takes a message that a Do
\* gives up, and d.receives grows only by the message the forwarding goroutine
\* held and holds no more. With the application reading, what the Do goroutines
\* and the forwarding goroutine hold is handed on, and after the context is
\* cancelled, the messages then in flight included, every returned message has in
\* the end been read.
C32_NoMessageLostOrDuplicated ==
  /\ [][\/ Unread' = Unread
        \/ \E i \in DOMAIN tasks :
             /\ tasks[i].pc = "inflight"
             /\ i \in DOMAIN tasks'
             /\ tasks'[i].pc # "inflight"
             /\ Unread' = Unread + Len(tasks'[i].res.items)
        \/ /\ receives # <<>>
           /\ receives' = Tail(receives)
           /\ Unread' = Unread - 1]_vars
  /\ [][(fwd = <<>> /\ fwd' # <<>>) => (Len(fwd') = 1 /\ Unsent' = Unsent - 1)]_vars
  /\ [][Len(receives') > Len(receives) =>
          (fwd # <<>> /\ fwd' = <<>> /\ receives' = Append(receives, fwd[1]))]_vars
  /\ (tasks # <<>> ~> tasks = <<>>)
  /\ (fwd # <<>> ~> fwd = <<>>)
  /\ ((1 \in cancelled) ~> (Requested = 0 /\ Unread = 0 /\ tasks = <<>>))

\* The context is cancelled while messages are with a Do, with the forwarding
\* goroutine and in the buffer of d.receives.
C32_Witness ==
  /\ 1 \in cancelled
  /\ loops[1].pc = "wait"
  /\ Unsent > 0
  /\ fwd # <<>>
  /\ receives # <<>>

\* The loop goroutines that are in their for loop: launched, and not yet in the
\* ctx.Done() branch.
InLoop == {l \in LoopIds : loops[l].pc \in {"select", "run", "wait"}}

\* C33 as stated, for the loops that have not begun their shutdown: at most one
\* loop goroutine of a Receive is in its for loop at a time.
C33_OneLoopAtATime == Cardinality(InLoop) <= 1

\* C34 as stated: once the context is cancelled every goroutine of Delete
\* returns in the end, whether or not the application reads the error stream.
C34_WorkersReturn == (1 \in cancelled) ~> AllReturned

====
